---- MODULE Spec2Model ----
(***************************************************************************)
(* WoL VLAN WebApp: the controller's registry (agents and hosts kept in    *)
(* storage.json), its wake dispatch and agent health probe, and the agent  *)
(* relay's /wake endpoint; also the registry's writes one file-system     *)
(* call at a time, createHost requests in flight together, the browser     *)
(* page's edit-agent button, normalizeMac on its own, and the awaited      *)
(* network call of a wake or a probe apart from the handler's resumption.  *)
(*                                                                         *)
(* Strings are sequences of one-character strings, so that trim,          *)
(* toLowerCase, replace and startsWith are computed as the code computes   *)
(* them.  A JSON request value is a record [t, s]: t is its JavaScript     *)
(* type and s its string content (or a one-element sequence holding a     *)
(* number).                                                                *)
(***************************************************************************)
EXTENDS Integers, Sequences, FiniteSets

VARIABLES
    storeExists,  \* storage.json exists on disk
    agents,       \* the "agents" array of storage.json
    hosts,        \* the "hosts" array of storage.json
    req,          \* route and :id of the request most recently answered
    res,          \* the response it was given
    inflight,     \* the asynchronous controller request awaiting its network call
    partial,      \* storage.json was opened for writing and its content is not there yet
    tmp,          \* storage.json.tmp: absent, opened, or holding a whole document
    writer,       \* the handler that is between two of its file-system calls
    pending,      \* createHost requests received whose handler has not run yet
    lastState,    \* the listing the browser page fetched last (app.js)
    normalizing,  \* a MAC string and what normalizeMac has made of it
    settled       \* what the awaited network call of inflight has settled with

vars ==
    <<storeExists, agents, hosts, req, res, inflight, partial, tmp, writer, pending,
      lastState, normalizing, settled>>

\* what the file-system steps, the request queue, the page, the MAC
\* calculation and the awaited call hold; a handler that runs in one piece
\* leaves them as they are
storageVars == <<partial, tmp, writer>>
besideVars == <<pending, lastState, normalizing, settled>>

\* ---------------------------------------------------------------- bounds
MaxAgents == 2
MaxHosts == 2
NumIds == 2
MaxPending == 3

\* ---------------------------------------------------------------- strings
WhiteSpace == {" "}

RECURSIVE TrimStart(_)
TrimStart(s) ==
    IF s # <<>> /\ Head(s) \in WhiteSpace THEN TrimStart(Tail(s)) ELSE s

RECURSIVE TrimEnd(_)
TrimEnd(s) ==
    IF s # <<>> /\ s[Len(s)] \in WhiteSpace
    THEN TrimEnd(SubSeq(s, 1, Len(s) - 1))
    ELSE s

\* String.prototype.trim
Trim(s) == TrimEnd(TrimStart(s))

\* String.prototype.startsWith
StartsWith(s, p) == Len(s) >= Len(p) /\ SubSeq(s, 1, Len(p)) = p

ToLowerChar(c) ==
    CASE c = "A" -> "a" [] c = "B" -> "b" [] c = "C" -> "c" [] c = "D" -> "d"
      [] c = "E" -> "e" [] c = "F" -> "f" [] c = "G" -> "g" [] OTHER -> c

\* String.prototype.toLowerCase
ToLowerCase(s) == [i \in 1..Len(s) |-> ToLowerChar(s[i])]

\* s.replace(/-/g, ':')
ReplaceDashes(s) == [i \in 1..Len(s) |-> IF s[i] = "-" THEN ":" ELSE s[i]]

RECURSIVE StripTrailingSlashes(_)
\* s.replace(/\/+$/, '')
StripTrailingSlashes(s) ==
    IF s # <<>> /\ s[Len(s)] = "/"
    THEN StripTrailingSlashes(SubSeq(s, 1, Len(s) - 1))
    ELSE s

\* ---------------------------------------------------------------- JSON values
Undefined == [t |-> "undefined", s |-> <<>>]
Null == [t |-> "null", s |-> <<>>]
Str(s) == [t |-> "string", s |-> s]
Num(n) == [t |-> "number", s |-> <<n>>]

\* JavaScript truthiness of a request value
Truthy(v) ==
    CASE v.t = "string" -> v.s # <<>>
      [] v.t = "number" -> v.s[1] # 0
      [] OTHER -> FALSE

\* String(v)
ToString(v) ==
    CASE v.t = "string" -> v.s
      [] v.t = "null" -> <<"n", "u", "l", "l">>
      [] v.t = "number" -> v.s
      [] OTHER -> <<"u", "n", "d", "e", "f", "i", "n", "e", "d">>

TrimAlways(v, cur) == Trim(ToString(v))

\* String(v || '').trim()
TrimOrEmpty(v) == IF Truthy(v) THEN Trim(ToString(v)) ELSE <<>>

\* v !== undefined ? String(v).trim() : cur
TrimOrKeep(v, cur) == IF v.t # "undefined" THEN Trim(ToString(v)) ELSE cur

\* ---------------------------------------------------------------- MAC addresses
HexChars ==
    {"0", "1", "2", "3", "4", "5", "6", "7", "8", "9",
     "a", "b", "c", "d", "e", "f", "A", "B", "C", "D", "E", "F"}

\* /^([0-9A-Fa-f]{2}([-:])){5}[0-9A-Fa-f]{2}$/.test(mac)
isMac(mac) ==
    /\ Len(mac) = 17
    /\ \A i \in 1..17 :
          IF i % 3 = 0 THEN mac[i] \in {"-", ":"} ELSE mac[i] \in HexChars

normalizeMacKeepCase(mac) == ReplaceDashes(Trim(mac))

normalizeMacLowerOnly(mac) == ToLowerCase(Trim(mac))

\* String(mac).trim().replace(/-/g, ':').toLowerCase()
normalizeMac(mac) == ToLowerCase(ReplaceDashes(Trim(mac)))

\* ---------------------------------------------------------------- identifiers
HexDigit(r) == <<"0", "1", "2", "3", "4", "5", "6", "7", "8", "9">>[r + 1]

\* the values crypto.randomBytes can return, cut down to NumIds of them
RandomBytes == 0..(NumIds - 1)

AgentPrefix == <<"a", "g", "e", "n", "t">>
HostPrefix == <<"h", "o", "s", "t">>

\* `${prefix}_${crypto.randomBytes(6).toString('hex')}`
newId(prefix, r) == prefix \o <<"_">> \o <<HexDigit(r)>>

\* ---------------------------------------------------------------- requests, responses
EmptyBody ==
    [name |-> Undefined, url |-> Undefined, token |-> Undefined, mac |-> Undefined,
     agentId |-> Undefined, broadcast |-> Undefined, port |-> Undefined]

\* op: the route; id: its :id or :hostId parameter; header: the X-Agent-Token it
\* presented (the body is an input of the step)
Request(op, id) == [op |-> op, id |-> id, header |-> Undefined]

EmptyListing == [agents |-> <<>>, hosts |-> <<>>]

\* res.status(status).json({...}); fields a route does not send keep these defaults.
\* calls and packets are the relay calls and magic packets the handler issued,
\* reply the kind of answer its network call met, cleared the number of host
\* references it reset.
Response(status, error) ==
    [status |-> status, ok |-> FALSE, error |-> error, id |-> <<>>,
     via |-> "", reachable |-> "", mac |-> Null, broadcast |-> Null, port |-> Null,
     listing |-> EmptyListing, calls |-> <<>>, packets |-> <<>>, reply |-> "none",
     cleared |-> 0]

\* res.json({ ok: true, ... })
Ok == [Response(200, "") EXCEPT !.ok = TRUE]

\* ---------------------------------------------------------------- storage helpers
\* readStore: initStoreIfMissing creates the file, then the two arrays are read
\* (a missing file reads as two empty arrays, which is what Init holds)
readStore(ags, hs) == [agents |-> ags, hosts |-> hs]

\* index of the first record with this id (Array.prototype.find), 0 when none
FindById(recs, id) ==
    IF \E i \in DOMAIN recs : recs[i].id = id
    THEN CHOOSE i \in DOMAIN recs :
            recs[i].id = id /\ \A j \in 1..(i - 1) : recs[j].id # id
    ELSE 0

\* Array.prototype.some(a => a.id === id)
SomeId(recs, id) == \E i \in DOMAIN recs : recs[i].id = id

\* Array.prototype.filter(x => x.id !== id)
RECURSIVE FilterOutId(_, _)
FilterOutId(recs, id) ==
    IF recs = <<>> THEN <<>>
    ELSE IF Head(recs).id = id THEN FilterOutId(Tail(recs), id)
    ELSE <<Head(recs)>> \o FilterOutId(Tail(recs), id)

\* What a registry handler did: its response, the store it leaves (written with
\* writeStore when written is TRUE) and whether it called readStore.
Outcome(response, ags, hs, read, written) ==
    [res |-> response, agents |-> ags, hosts |-> hs, read |-> read, written |-> written]

Rejected(status, error, ags, hs, read) ==
    Outcome(Response(status, error), ags, hs, read, FALSE)

ValidUrlUnchecked(url) == TRUE

ValidUrl(url) ==
    \/ StartsWith(url, <<"h", "t", "t", "p", ":", "/", "/">>)
    \/ StartsWith(url, <<"h", "t", "t", "p", "s", ":", "/", "/">>)

\* ---------------------------------------------------------------- agents CRUD
\* app.post('/api/agents')
createAgent(ags, hs, body, r) ==
    LET name == TrimOrEmpty(body.name)
        url == TrimOrEmpty(body.url)
        token == TrimOrEmpty(body.token)
        id == newId(AgentPrefix, r)
    IN  IF name = <<>> THEN Rejected(400, "name required", ags, hs, FALSE)
        ELSE IF ~ValidUrl(url)
        THEN Rejected(400, "url must start with http:// or https://", ags, hs, FALSE)
        ELSE IF token = <<>> THEN Rejected(400, "token required", ags, hs, FALSE)
        ELSE Outcome([Ok EXCEPT !.id = id],
                     Append(ags, [id |-> id, name |-> name, url |-> url, token |-> token]),
                     hs, TRUE, TRUE)

\* app.put('/api/agents/:id')
updateAgent(ags, hs, id, body) ==
    LET i == FindById(ags, id)
        name == TrimOrKeep(body.name, ags[i].name)
        url == TrimOrKeep(body.url, ags[i].url)
        token == TrimOrKeep(body.token, ags[i].token)
    IN  IF i = 0 THEN Rejected(404, "agent not found", ags, hs, TRUE)
        ELSE IF name = <<>> THEN Rejected(400, "name required", ags, hs, TRUE)
        ELSE IF ~ValidUrl(url)
        THEN Rejected(400, "url must start with http:// or https://", ags, hs, TRUE)
        ELSE IF token = <<>> THEN Rejected(400, "token required", ags, hs, TRUE)
        ELSE Outcome(Ok,
                     [ags EXCEPT ![i] = [id |-> ags[i].id, name |-> name,
                                         url |-> url, token |-> token]],
                     hs, TRUE, TRUE)

ClearNoRefs(hs, id) == hs

\* hosts.map(h => (h.agentId === id ? { ...h, agentId: null } : h))
ClearAgentRefs(hs, id) ==
    [k \in DOMAIN hs |-> IF hs[k].agentId = Str(id) THEN [hs[k] EXCEPT !.agentId = Null]
                         ELSE hs[k]]

\* app.delete('/api/agents/:id')
deleteAgent(ags, hs, id) ==
    LET cleared == ClearAgentRefs(hs, id)
        kept == FilterOutId(ags, id)
    IN  IF Len(kept) = Len(ags) THEN Rejected(404, "agent not found", ags, hs, TRUE)
        ELSE Outcome([Ok EXCEPT !.cleared = Cardinality({k \in DOMAIN hs :
                                                            hs[k].agentId = Str(id)})],
                     kept, cleared, TRUE, TRUE)

\* ---------------------------------------------------------------- hosts CRUD
\* v ? String(v).trim() : null
TrimOrNull(v) == IF Truthy(v) THEN Str(Trim(ToString(v))) ELSE Null

\* agentId || null
OrNull(v) == IF Truthy(v) THEN v ELSE Null

DanglingNever(ags, agentId) == FALSE

\* agentId && !store.agents.some(a => a.id === agentId)
DanglingAgentId(ags, agentId) == Truthy(agentId) /\ ~SomeId(ags, agentId.s)

MacNeverTaken(hs, mac) == FALSE

\* store.hosts.some(h => h.mac === mac)
MacTaken(hs, mac) == \E k \in DOMAIN hs : hs[k].mac = mac

\* store.hosts.some(h => h.id !== id && h.mac === mac)
MacTakenByOther(hs, id, mac) == \E k \in DOMAIN hs : hs[k].id # id /\ hs[k].mac = mac

createHostWriteBeforeConflictCheck(ags, hs, body, r) ==
    LET name == TrimOrEmpty(body.name)
        mac == normalizeMac(IF Truthy(body.mac) THEN ToString(body.mac) ELSE <<>>)
        agentId == TrimOrNull(body.agentId)
        id == newId(HostPrefix, r)
        pushed == Append(hs, [id |-> id, name |-> name, mac |-> mac,
                              agentId |-> OrNull(agentId)])
    IN  IF name = <<>> THEN Rejected(400, "name required", ags, hs, FALSE)
        ELSE IF ~isMac(mac) THEN Rejected(400, "invalid mac", ags, hs, FALSE)
        ELSE IF DanglingAgentId(ags, agentId)
        THEN Rejected(400, "agentId not found", ags, hs, TRUE)
        ELSE IF MacTaken(hs, mac)
        THEN Outcome(Response(409, "mac already exists"), ags, pushed, TRUE, TRUE)
        ELSE Outcome([Ok EXCEPT !.id = id], ags, pushed, TRUE, TRUE)

\* app.post('/api/hosts')
createHost(ags, hs, body, r) ==
    LET name == TrimOrEmpty(body.name)
        mac == normalizeMac(IF Truthy(body.mac) THEN ToString(body.mac) ELSE <<>>)
        agentId == TrimOrNull(body.agentId)
        id == newId(HostPrefix, r)
    IN  IF name = <<>> THEN Rejected(400, "name required", ags, hs, FALSE)
        ELSE IF ~isMac(mac) THEN Rejected(400, "invalid mac", ags, hs, FALSE)
        ELSE IF DanglingAgentId(ags, agentId)
        THEN Rejected(400, "agentId not found", ags, hs, TRUE)
        ELSE IF MacTaken(hs, mac) THEN Rejected(409, "mac already exists", ags, hs, TRUE)
        ELSE Outcome([Ok EXCEPT !.id = id], ags,
                     Append(hs, [id |-> id, name |-> name, mac |-> mac,
                                 agentId |-> OrNull(agentId)]),
                     TRUE, TRUE)

\* app.put('/api/hosts/:id')
updateHost(ags, hs, id, body) ==
    LET i == FindById(hs, id)
        name == TrimOrKeep(body.name, hs[i].name)
        mac == IF body.mac.t # "undefined" THEN normalizeMac(ToString(body.mac))
               ELSE hs[i].mac
        agentId == IF body.agentId.t # "undefined" THEN TrimOrNull(body.agentId)
                   ELSE hs[i].agentId
    IN  IF i = 0 THEN Rejected(404, "host not found", ags, hs, TRUE)
        ELSE IF name = <<>> THEN Rejected(400, "name required", ags, hs, TRUE)
        ELSE IF ~isMac(mac) THEN Rejected(400, "invalid mac", ags, hs, TRUE)
        ELSE IF DanglingAgentId(ags, agentId)
        THEN Rejected(400, "agentId not found", ags, hs, TRUE)
        ELSE IF MacTakenByOther(hs, id, mac)
        THEN Rejected(409, "mac already exists", ags, hs, TRUE)
        ELSE Outcome(Ok, ags,
                     [hs EXCEPT ![i] = [id |-> hs[i].id, name |-> name, mac |-> mac,
                                        agentId |-> OrNull(agentId)]],
                     TRUE, TRUE)

\* app.delete('/api/hosts/:id')
deleteHost(ags, hs, id) ==
    LET kept == FilterOutId(hs, id)
    IN  IF Len(kept) = Len(hs) THEN Rejected(404, "host not found", ags, hs, TRUE)
        ELSE Outcome(Ok, ags, kept, TRUE, TRUE)

\* ---------------------------------------------------------------- listing
AgentViewWithToken(a) == [id |-> a.id, name |-> a.name, url |-> a.url, token |-> a.token]

\* a => ({ id: a.id, name: a.name, url: a.url })
AgentView(a) == [id |-> a.id, name |-> a.name, url |-> a.url]

\* h => ({ id: h.id, name: h.name, mac: h.mac, agentId: h.agentId || null })
HostView(h) == [id |-> h.id, name |-> h.name, mac |-> h.mac, agentId |-> OrNull(h.agentId)]

\* app.get('/api/state')
getState(ags, hs) ==
    Outcome([Response(200, "") EXCEPT
                !.listing = [agents |-> [i \in DOMAIN ags |-> AgentView(ags[i])],
                             hosts |-> [k \in DOMAIN hs |-> HostView(hs[k])]]],
            ags, hs, TRUE, FALSE)

\* ---------------------------------------------------------------- magic packets
\* wol(mac, options): options.address and options.port are set only when given
Packet(mac, broadcast, port) ==
    [mac |-> mac,
     address |-> IF Truthy(broadcast) THEN broadcast ELSE Undefined,
     port |-> IF Truthy(port) THEN port ELSE Undefined]

\* v ? String(v).trim() : undefined
TrimOrUndefined(v) == IF Truthy(v) THEN Str(Trim(ToString(v))) ELSE Undefined

\* v ? Number(v) : undefined
NumberOrUndefined(v) == IF Truthy(v) THEN v ELSE Undefined

\* x ?? null
OrNullish(v) == IF v.t = "undefined" THEN Null ELSE v

\* ---------------------------------------------------------------- agent mode
\* the agent process's AGENT_TOKEN environment variable (non-empty, or it exits)
AGENT_TOKEN == <<"s", "k">>

TokenAcceptedByPrefix(token) == StartsWith(AGENT_TOKEN, token)

\* !(token !== AGENT_TOKEN)
TokenAccepted(token) == token = AGENT_TOKEN

\* app.post('/wake') of agent mode; wolOk: whether wol(mac, options) resolves
agentWake(header, body, wolOk) ==
    LET token == IF Truthy(header) THEN ToString(header) ELSE <<>>
        mac == normalizeMac(IF Truthy(body.mac) THEN ToString(body.mac) ELSE <<>>)
        broadcast == TrimOrUndefined(body.broadcast)
        port == NumberOrUndefined(body.port)
        packet == Packet(mac, broadcast, port)
    IN  IF ~TokenAccepted(token) THEN Response(401, "unauthorized")
        ELSE IF ~isMac(mac) THEN Response(400, "invalid mac")
        ELSE IF ~wolOk THEN [Response(500, "send failed") EXCEPT !.packets = <<packet>>]
        ELSE [Ok EXCEPT !.mac = Str(mac), !.broadcast = OrNullish(packet.address),
                        !.port = OrNullish(packet.port), !.packets = <<packet>>]

\* ---------------------------------------------------------------- fetchJson
\* What fetch met: no answer at all, an answer that is not the agent's JSON, or
\* the agent's answer.  status 0 stands for the rejected fetch.
TransportFailure == [status |-> 0, json |-> FALSE, data |-> Response(0, "")]
HttpReply(status, json, data) == [status |-> status, json |-> json, data |-> data]

\* `HTTP ${res.status}`
HttpStatusMessage(status) ==
    CASE status = 400 -> "HTTP 400" [] status = 401 -> "HTTP 401"
      [] status = 404 -> "HTTP 404" [] status = 500 -> "HTTP 500"
      [] OTHER -> "HTTP"

\* res.ok
ReplyOk(reply) == reply.status >= 200 /\ reply.status <= 299

\* fetchJson: [threw, message] when it throws, [threw |-> FALSE, data] otherwise
fetchJson(reply) ==
    IF reply.status = 0 THEN [threw |-> TRUE, message |-> "fetch failed", data |-> reply.data]
    ELSE IF ~ReplyOk(reply)
    THEN [threw |-> TRUE,
          message |-> IF reply.json /\ reply.data.error # "" THEN reply.data.error
                      ELSE HttpStatusMessage(reply.status),
          data |-> reply.data]
    ELSE [threw |-> FALSE, message |-> "", data |-> reply.data]

\* ---------------------------------------------------------------- wake dispatch
NoRequest == Request("", <<>>)

\* The asynchronous handler suspended at its await: the request it serves, the
\* agent it resolved, and the relay calls, magic packets or probe it has issued.
Inflight(kind, request, agentId, calls, packets) ==
    [kind |-> kind, req |-> request, agentId |-> agentId, calls |-> calls,
     packets |-> packets]

NoInflight == Inflight("none", NoRequest, <<>>, <<>>, <<>>)

\* A handler either answers at once (res) or suspends at its await (inflight).
Answered(response) == [done |-> TRUE, res |-> response, inflight |-> NoInflight]
Suspended(flight) == [done |-> FALSE, res |-> Response(0, ""), inflight |-> flight]

\* postJson(url, { 'X-Agent-Token': token }, payload)
RelayCall(url, token, mac, broadcast, port) ==
    [url |-> url, token |-> token,
     body |-> [EmptyBody EXCEPT !.mac = Str(mac),
                                !.broadcast = IF Truthy(broadcast) THEN broadcast
                                              ELSE Undefined,
                                !.port = IF Truthy(port) THEN port ELSE Undefined]]

WakePath == <<"/", "w", "a", "k", "e">>
HealthPath == <<"/", "h", "e", "a", "l", "t", "h">>

RelayUrlUnstripped(url) == url \o WakePath

\* agent.url.replace(/\/+$/, '') + '/wake'
RelayUrl(url) == StripTrailingSlashes(url) \o WakePath

\* app.post('/api/wake/:hostId') up to its await
wakeStart(ags, hs, hostId, body) ==
    LET k == FindById(hs, hostId)
        host == hs[k]
        request == Request("POST /api/wake/:hostId", hostId)
        overrideBroadcast == TrimOrUndefined(body.broadcast)
        overridePort == NumberOrUndefined(body.port)
        j == FindById(ags, host.agentId.s)
        agent == ags[j]
    IN  IF k = 0 THEN Answered(Response(404, "host not found"))
        ELSE IF Truthy(host.agentId)
        THEN IF j = 0
             THEN Answered(Response(500, "host.agentId is set but agent missing"))
             ELSE Suspended(Inflight("relay", request, agent.id,
                                     <<RelayCall(RelayUrl(agent.url), agent.token, host.mac,
                                                 overrideBroadcast, overridePort)>>,
                                     <<>>))
        ELSE Suspended(Inflight("local", request, <<>>, <<>>,
                                <<Packet(host.mac, overrideBroadcast, overridePort)>>))

wakeRelayedFallingBack(flight, reply) ==
    LET r == fetchJson(reply)
        packet == Packet(flight.calls[1].body.mac.s, Undefined, Undefined)
    IN  IF r.threw
        THEN [Ok EXCEPT !.via = "local", !.mac = flight.calls[1].body.mac,
                        !.calls = flight.calls, !.packets = <<packet>>]
        ELSE [Ok EXCEPT !.via = "agent", !.id = flight.agentId,
                        !.mac = r.data.mac, !.broadcast = r.data.broadcast,
                        !.port = r.data.port,
                        !.calls = flight.calls, !.packets = flight.packets]

\* the rest of the handler once postJson settles with this reply
wakeRelayed(flight, reply) ==
    LET r == fetchJson(reply)
    IN  IF r.threw
        THEN [Response(500, r.message) EXCEPT !.calls = flight.calls,
                                              !.packets = flight.packets]
        ELSE [Ok EXCEPT !.via = "agent", !.id = flight.agentId,
                        !.mac = r.data.mac, !.broadcast = r.data.broadcast,
                        !.port = r.data.port,
                        !.calls = flight.calls, !.packets = flight.packets]

\* the rest of the handler once wol(host.mac, options) settles
wakeLocal(flight, wolOk) ==
    LET packet == flight.packets[1]
    IN  IF ~wolOk
        THEN [Response(500, "send failed") EXCEPT !.calls = flight.calls,
                                                  !.packets = flight.packets]
        ELSE [Ok EXCEPT !.via = "local", !.mac = Str(packet.mac),
                        !.broadcast = OrNullish(packet.address),
                        !.port = OrNullish(packet.port),
                        !.calls = flight.calls, !.packets = flight.packets]

\* ---------------------------------------------------------------- agent health
\* app.get('/api/agents/:id/health') up to its await; the probe is its one call
healthStart(ags, hs, id) ==
    LET j == FindById(ags, id)
        request == Request("GET /api/agents/:id/health", id)
    IN  IF j = 0 THEN Answered(Response(404, "agent not found"))
        ELSE Suspended(Inflight("probe", request, ags[j].id,
                                <<[url |-> StripTrailingSlashes(ags[j].url) \o HealthPath,
                                   token |-> <<>>, body |-> EmptyBody]>>,
                                <<>>))

healthProbedThrowing(flight, reply) ==
    LET r == fetchJson(reply)
    IN  IF r.threw THEN [Response(500, r.message) EXCEPT !.calls = flight.calls]
        ELSE [Ok EXCEPT !.reachable = "true", !.calls = flight.calls]

\* the rest of the handler once fetchJson settles with this reply
healthProbed(flight, reply) ==
    LET r == fetchJson(reply)
    IN  IF r.threw
        THEN [Ok EXCEPT !.reachable = "false", !.error = r.message, !.calls = flight.calls]
        ELSE [Ok EXCEPT !.reachable = "true", !.calls = flight.calls]

\* ---------------------------------------------------------------- request inputs
NameN == <<"n">>
UrlA == <<"h", "t", "t", "p", ":", "/", "/", "a", "/", "/">>
UrlB == <<"h", "t", "t", "p", "s", ":", "/", "/", "b">>
UrlFtp == <<"f", "t", "p", ":", "/", "/", "a">>
TokenS == <<"s">>
Mac1 == <<"a", "a", ":", "b", "b", ":", "c", "c", ":", "d", "d", ":", "e", "e", ":", "0", "1">>
Mac1UpperDash ==
    <<"A", "A", "-", "B", "B", "-", "C", "C", "-", "D", "D", "-", "E", "E", "-", "0", "1">>
Mac1Mixed ==
    <<" ", "A", "a", ":", "b", "B", "-", "c", "c", ":", "D", "D", "-", "e", "e", ":", "0",
      "1", " ">>
Mac2 == <<"a", "a", ":", "b", "b", ":", "c", "c", ":", "d", "d", ":", "e", "e", ":", "0", "2">>
MacShort == <<"a", "a", ":", "b", "b", ":", "c", "c", ":", "d", "d", ":", "e", "e">>
MacNoHex ==
    <<"G", "G", "-", "B", "B", "-", "C", "C", "-", "D", "D", "-", "E", "E", "-", "0", "1">>
Broadcast == <<"1", "0", ".", "0", ".", "2", ".", "2", "5", "5">>

AgentIds == {newId(AgentPrefix, r) : r \in RandomBytes}
HostIds == {newId(HostPrefix, r) : r \in RandomBytes}
UnknownAgentId == AgentPrefix \o <<"_", "f">>
UnknownHostId == HostPrefix \o <<"_", "f">>
AgentIdParams == AgentIds \cup {UnknownAgentId}
HostIdParams == HostIds \cup {UnknownHostId}

Padded(s) == <<" ">> \o s \o <<" ">>

AgentBody(n, u, t) == [EmptyBody EXCEPT !.name = n, !.url = u, !.token = t]
HostBody(n, m, a) == [EmptyBody EXCEPT !.name = n, !.mac = m, !.agentId = a]

\* bodies of POST /api/agents: the valid one, and one per validation that fails
AgentCreateBodies ==
    {AgentBody(Str(Padded(NameN)), Str(UrlA), Str(AGENT_TOKEN)),
     AgentBody(Str(<<" ">>), Str(UrlA), Str(AGENT_TOKEN)),
     AgentBody(Str(NameN), Str(UrlFtp), Str(AGENT_TOKEN)),
     AgentBody(Str(NameN), Str(UrlA), Undefined)}

\* bodies of PUT /api/agents/:id: partial updates, valid and not
AgentUpdateBodies ==
    {AgentBody(Undefined, Undefined, Undefined),
     AgentBody(Str(<<" ">>), Undefined, Undefined),
     AgentBody(Undefined, Str(UrlFtp), Undefined),
     AgentBody(Undefined, Undefined, Str(<<" ">>)),
     AgentBody(Undefined, Undefined, Str(Padded(AGENT_TOKEN)))}

\* bodies of POST /api/hosts: every MAC spelling with every agentId, and a
\* missing name
HostCreateBodies ==
    {HostBody(Str(Padded(NameN)), m, a) :
        m \in {Str(Mac1UpperDash), Str(Mac1Mixed), Str(Mac2), Str(MacShort)},
        a \in {Null, Str(UnknownAgentId)} \cup {Str(Padded(id)) : id \in AgentIds}}
        \cup {HostBody(Undefined, Str(Mac1UpperDash), Null)}

\* bodies of PUT /api/hosts/:id: partial updates of mac and agentId, and a
\* blank name
HostUpdateBodies ==
    {HostBody(Undefined, m, a) :
        m \in {Undefined, Str(Mac1UpperDash), Str(Mac2), Str(MacNoHex)},
        a \in {Undefined, Null, Str(UnknownAgentId)} \cup {Str(id) : id \in AgentIds}}
        \cup {HostBody(Str(<<" ">>), Undefined, Undefined)}

\* bodies of POST /api/wake/:hostId
WakeBodies ==
    {EmptyBody,
     [EmptyBody EXCEPT !.broadcast = Str(Padded(Broadcast)), !.port = Num(7)]}

\* bodies and X-Agent-Token headers of the agent's POST /wake
RelayBodies ==
    {[EmptyBody EXCEPT !.mac = Str(Mac1UpperDash)],
     [EmptyBody EXCEPT !.mac = Str(Mac1), !.broadcast = Str(Broadcast), !.port = Num(7)],
     [EmptyBody EXCEPT !.mac = Str(MacShort)],
     EmptyBody}
HeaderInputs ==
    {Undefined, Str(<<>>), Str(TokenS), Str(AGENT_TOKEN), Str(AGENT_TOKEN \o <<"x">>),
     Str(<<" ">> \o AGENT_TOKEN)}

\* the registry requests that set up agents and hosts for the dispatch runs
DispatchAgentCreateBodies ==
    {AgentBody(Str(NameN), Str(UrlA), Str(AGENT_TOKEN))}
DispatchHostCreateBodies ==
    {HostBody(Str(NameN), Str(Mac1UpperDash), Null),
     HostBody(Str(NameN), Str(Mac2), Str(newId(AgentPrefix, 0)))}
DispatchHostUpdateBodies == {HostBody(Undefined, Undefined, Null)}

\* MAC strings: the two addresses in every mix of ':' and '-' and in lower, upper
\* and mixed case, and strings that are no MAC
ToUpperHex(c) ==
    CASE c = "a" -> "A" [] c = "b" -> "B" [] c = "c" -> "C" [] c = "d" -> "D"
      [] c = "e" -> "E" [] c = "f" -> "F" [] OTHER -> c
Spelling(base, seps, case) ==
    [i \in 1..Len(base) |->
        IF i % 3 = 0 THEN seps[i \div 3]
        ELSE IF case = "upper" \/ (case = "mixed" /\ i % 3 = 1) THEN ToUpperHex(base[i])
        ELSE base[i]]
MacSpellings ==
    {Spelling(base, seps, case) :
        base \in {Mac1, Mac2}, seps \in [1..5 -> {":", "-"}],
        case \in {"lower", "upper", "mixed"}}
MacInputs == MacSpellings \cup {Mac1Mixed, MacShort, MacNoHex, Padded(Mac2), <<>>}

\* bodies of the POST /api/hosts requests that are in flight together: one
\* address in two spellings, and another address
RaceHostCreateBodies ==
    {HostBody(Str(NameN), Str(m), Null) : m \in {Mac1UpperDash, Mac1, Mac2}}

\* what the user answers to the prompts of the edit-agent button: null is Cancel,
\* a string is what was typed before OK
PromptNames == {Null, Str(NameN), Str(<<"m">>)}
PromptUrls == {Null, Str(UrlB)}
PromptTokens == {Null, Str(<<>>), Str(<<" ">>), Str(Padded(TokenS))}
PromptKeeps == {Null, Str(<<>>)}

\* the registry requests whose file-system steps are followed one by one
StorageRequests ==
    {[pc |-> "start", op |-> "POST /api/agents", id |-> <<>>, body |-> body, r |-> r] :
        body \in DispatchAgentCreateBodies, r \in RandomBytes}
        \cup {[pc |-> "start", op |-> "POST /api/hosts", id |-> <<>>, body |-> body,
               r |-> r] : body \in DispatchHostCreateBodies, r \in RandomBytes}
        \cup {[pc |-> "start", op |-> "DELETE /api/agents/:id", id |-> id,
               body |-> EmptyBody, r |-> 0] : id \in AgentIds}
        \cup {[pc |-> "start", op |-> "DELETE /api/hosts/:id", id |-> id,
               body |-> EmptyBody, r |-> 0] : id \in HostIds}

\* ---------------------------------------------------------------- network replies
\* what may answer the controller's relay call: nothing, something that is not an
\* agent, or the agent's /wake handler given the call's header and body
RelayReplies(call) ==
    {TransportFailure, HttpReply(404, FALSE, Response(404, ""))}
        \cup {HttpReply(agentWake(Str(call.token), call.body, wolOk).status, TRUE,
                        agentWake(Str(call.token), call.body, wolOk)) : wolOk \in BOOLEAN}

\* what may answer the health probe; the agent's /health answers { ok: true, mode }
ProbeReplies ==
    {TransportFailure, HttpReply(200, TRUE, Ok), HttpReply(200, FALSE, Response(200, "")),
     HttpReply(500, TRUE, Response(500, "boom")), HttpReply(500, TRUE, Response(500, "")),
     HttpReply(404, FALSE, Response(404, ""))}

ReplyKind(reply) ==
    IF reply.status = 0 THEN "transport failure"
    ELSE IF ReplyOk(reply) THEN (IF reply.json THEN "2xx json" ELSE "2xx text")
    ELSE (IF reply.json THEN "non-2xx json" ELSE "non-2xx text")

\* ---------------------------------------------------------------- files, queue, page
\* a file of the store's directory: absent, opened and not yet written ("open"),
\* or holding the whole document that was written to it
NoFile == [content |-> "absent", agents |-> <<>>, hosts |-> <<>>]
OpenedFile == [content |-> "open", agents |-> <<>>, hosts |-> <<>>]
WrittenFile(ags, hs) == [content |-> "whole", agents |-> ags, hosts |-> hs]

\* no handler is between two file-system calls
Idle == [pc |-> "idle", op |-> "", id |-> <<>>, body |-> EmptyBody, r |-> 0]

\* no MAC string is being normalized
NotNormalizing == [raw |-> <<>>, once |-> <<>>, twice |-> <<>>, applied |-> 0]

\* the awaited fetch has neither resolved nor rejected
Unsettled == [status |-> -1, json |-> FALSE, data |-> Response(0, "")]

\* ---------------------------------------------------------------- initial state
\* a fresh controller: no storage.json yet, which reads as an empty store
InitController ==
    /\ storeExists = FALSE
    /\ agents = <<>>
    /\ hosts = <<>>
    /\ req = NoRequest
    /\ res = Response(0, "")
    /\ inflight = NoInflight
    /\ partial = FALSE
    /\ tmp = NoFile
    /\ writer = Idle
    /\ pending = <<>>
    /\ lastState = EmptyListing
    /\ settled = Unsettled

Init == InitController /\ normalizing = NotNormalizing

\* the MAC calculation alone, started on any of the MAC strings
InitMac ==
    /\ InitController
    /\ normalizing \in {[NotNormalizing EXCEPT !.raw = m] : m \in MacInputs}

\* ---------------------------------------------------------------- registry actions
\* A registry handler has no await: it runs from readStore to its response in one
\* step, and writeStore replaces the store only on the path that reaches it.
Handle(request, out) ==
    /\ Len(out.agents) <= MaxAgents
    /\ Len(out.hosts) <= MaxHosts
    /\ req' = request
    /\ res' = out.res
    /\ storeExists' = (storeExists \/ out.read)
    /\ agents' = IF out.written THEN out.agents ELSE agents
    /\ hosts' = IF out.written THEN out.hosts ELSE hosts
    /\ UNCHANGED <<inflight, storageVars, besideVars>>

CreateAgent(body) ==
    \E r \in RandomBytes :
        Handle(Request("POST /api/agents", <<>>),
               createAgent(readStore(agents, hosts).agents, readStore(agents, hosts).hosts,
                           body, r))

UpdateAgent(id, body) ==
    Handle(Request("PUT /api/agents/:id", id),
           updateAgent(readStore(agents, hosts).agents, readStore(agents, hosts).hosts,
                       id, body))

DeleteAgent(id) ==
    Handle(Request("DELETE /api/agents/:id", id),
           deleteAgent(readStore(agents, hosts).agents, readStore(agents, hosts).hosts, id))

CreateHost(body) ==
    \E r \in RandomBytes :
        Handle(Request("POST /api/hosts", <<>>),
               createHost(readStore(agents, hosts).agents, readStore(agents, hosts).hosts,
                          body, r))

UpdateHost(id, body) ==
    Handle(Request("PUT /api/hosts/:id", id),
           updateHost(readStore(agents, hosts).agents, readStore(agents, hosts).hosts,
                      id, body))

DeleteHost(id) ==
    Handle(Request("DELETE /api/hosts/:id", id),
           deleteHost(readStore(agents, hosts).agents, readStore(agents, hosts).hosts, id))

GetState ==
    Handle(Request("GET /api/state", <<>>),
           getState(readStore(agents, hosts).agents, readStore(agents, hosts).hosts))

\* ---------------------------------------------------------------- dispatch actions
\* An asynchronous handler runs to its await in one step and from the settled
\* call to its response in another; registry requests may be served in between.
\* While it is suspended it has no response yet: req and res name no request.
Begin(request, started) ==
    /\ inflight.kind = "none"
    /\ storeExists' = TRUE
    /\ UNCHANGED <<agents, hosts, storageVars, besideVars>>
    /\ IF started.done
       THEN req' = request /\ res' = started.res /\ UNCHANGED inflight
       ELSE inflight' = started.inflight /\ req' = NoRequest /\ res' = Response(0, "")

Finish(response, reply) ==
    /\ req' = inflight.req
    /\ res' = [response EXCEPT !.reply = ReplyKind(reply)]
    /\ inflight' = NoInflight
    /\ UNCHANGED <<storeExists, agents, hosts, storageVars, besideVars>>

WakeStart(hostId, body) ==
    Begin(Request("POST /api/wake/:hostId", hostId),
          wakeStart(readStore(agents, hosts).agents, readStore(agents, hosts).hosts,
                    hostId, body))

WakeRelayed ==
    /\ inflight.kind = "relay"
    /\ \E reply \in RelayReplies(inflight.calls[1]) :
          Finish(wakeRelayed(inflight, reply), reply)

WakeLocal ==
    /\ inflight.kind = "local"
    /\ \E wolOk \in BOOLEAN :
          Finish(wakeLocal(inflight, wolOk), TransportFailure)

HealthStart(id) ==
    Begin(Request("GET /api/agents/:id/health", id),
          healthStart(readStore(agents, hosts).agents, readStore(agents, hosts).hosts, id))

HealthProbed ==
    /\ inflight.kind = "probe"
    /\ \E reply \in ProbeReplies : Finish(healthProbed(inflight, reply), reply)

\* the agent process serving one POST /wake (it keeps no state of its own)
AgentWake(header, body) ==
    /\ \E wolOk \in BOOLEAN :
          /\ req' = [Request("POST /wake", <<>>) EXCEPT !.header = header]
          /\ res' = agentWake(header, body, wolOk)
    /\ UNCHANGED <<storeExists, agents, hosts, inflight, storageVars, besideVars>>

\* ---------------------------------------------------------------- awaited calls
\* The same handlers with the await taken apart: the fetch of fetchJson settles
\* when the agent or the transport makes it settle, and the handler resumes
\* once it has.  fetch is called with the url, method, headers and body alone:
\* no signal and no timer of the handler ever settles it.
CallSettles ==
    /\ inflight.kind \in {"relay", "probe"}
    /\ settled = Unsettled
    /\ settled' \in (IF inflight.kind = "relay" THEN RelayReplies(inflight.calls[1])
                     ELSE ProbeReplies)
    /\ UNCHANGED <<storeExists, agents, hosts, req, res, inflight, storageVars,
                   pending, lastState, normalizing>>

\* the handler resumed after its await answers the caller
Resume(response) ==
    /\ settled # Unsettled
    /\ req' = inflight.req
    /\ res' = [response EXCEPT !.reply = ReplyKind(settled)]
    /\ inflight' = NoInflight
    /\ settled' = Unsettled
    /\ UNCHANGED <<storeExists, agents, hosts, storageVars, pending, lastState,
                   normalizing>>

WakeResumes == inflight.kind = "relay" /\ Resume(wakeRelayed(inflight, settled))

HealthResumes == inflight.kind = "probe" /\ Resume(healthProbed(inflight, settled))

\* ---------------------------------------------------------------- file-system steps
\* The registry handlers again, one file-system call at a time, with the process
\* liable to die between any two of them.  fs.writeFileSync opens (creates or
\* truncates) the file and then writes the data; fs.renameSync replaces the
\* target in one step.  While storage.json is whole, agents and hosts are its
\* content.

\* what the handler of request w does on this store
serve(w, ags, hs) ==
    CASE w.op = "POST /api/agents" -> createAgent(ags, hs, w.body, w.r)
      [] w.op = "POST /api/hosts" -> createHost(ags, hs, w.body, w.r)
      [] w.op = "DELETE /api/agents/:id" -> deleteAgent(ags, hs, w.id)
      [] OTHER -> deleteHost(ags, hs, w.id)

\* the answer of a handler whose readStore threw on JSON.parse
ParseFailure == Response(500, "Unexpected end of JSON input")

\* the handler starts and reaches readStore; initStoreIfMissing finds no
\* storage.json and its writeFileSync opens it
StartHandler(w) ==
    /\ writer.pc = "idle"
    /\ serve(w, agents, hosts).read
    /\ Len(serve(w, agents, hosts).agents) <= MaxAgents
    /\ Len(serve(w, agents, hosts).hosts) <= MaxHosts
    /\ IF storeExists
       THEN writer' = [w EXCEPT !.pc = "read"] /\ UNCHANGED <<storeExists, partial>>
       ELSE writer' = [w EXCEPT !.pc = "init"] /\ storeExists' = TRUE /\ partial' = TRUE
    /\ UNCHANGED <<agents, hosts, req, res, inflight, tmp, besideVars>>

\* initStoreIfMissing's writeFileSync writes { agents: [], hosts: [] }
InitStoreWritten ==
    /\ writer.pc = "init"
    /\ partial' = FALSE
    /\ writer' = [writer EXCEPT !.pc = "read"]
    /\ UNCHANGED <<storeExists, agents, hosts, req, res, inflight, tmp, besideVars>>

\* readFileSync and JSON.parse; the handler's checks; then its answer, or the
\* writeFileSync of writeStore opening storage.json.tmp
ReadStoreAndDecide ==
    /\ writer.pc = "read"
    /\ LET out == serve(writer, agents, hosts)
       IN  IF partial
           THEN /\ req' = Request(writer.op, writer.id) /\ res' = ParseFailure
                /\ writer' = Idle /\ UNCHANGED tmp
           ELSE IF ~out.written
           THEN /\ req' = Request(writer.op, writer.id) /\ res' = out.res
                /\ writer' = Idle /\ UNCHANGED tmp
           ELSE /\ tmp' = OpenedFile
                /\ writer' = [writer EXCEPT !.pc = "tmp"]
                /\ UNCHANGED <<req, res>>
    /\ UNCHANGED <<storeExists, agents, hosts, inflight, partial, besideVars>>

\* writeStore's writeFileSync writes the new document to storage.json.tmp
TmpWritten ==
    /\ writer.pc = "tmp"
    /\ tmp' = WrittenFile(serve(writer, agents, hosts).agents,
                          serve(writer, agents, hosts).hosts)
    /\ writer' = [writer EXCEPT !.pc = "rename"]
    /\ UNCHANGED <<storeExists, agents, hosts, req, res, inflight, partial, besideVars>>

\* fs.renameSync(tmp, STORE_PATH), and the handler's answer
Renamed ==
    /\ writer.pc = "rename"
    /\ agents' = tmp.agents
    /\ hosts' = tmp.hosts
    /\ partial' = FALSE
    /\ tmp' = NoFile
    /\ req' = Request(writer.op, writer.id)
    /\ res' = serve(writer, agents, hosts).res
    /\ writer' = Idle
    /\ UNCHANGED <<storeExists, inflight, besideVars>>

\* the process dies between two file-system calls and is started again: the
\* files stay as they are, the handler and its answer are gone
Crash ==
    /\ writer.pc # "idle"
    /\ writer' = Idle
    /\ UNCHANGED <<storeExists, agents, hosts, req, res, inflight, partial, tmp,
                   besideVars>>

\* ---------------------------------------------------------------- browser page
\* cur.token, cur being an agent record of the fetched listing
TokenOf(cur) == IF "token" \in DOMAIN cur THEN Str(cur.token) ELSE Undefined

\* The edit-agent click handler up to its api() call: whether it sends a PUT,
\* and the body it sends.  JSON.stringify leaves out a token that is undefined
\* and sends a token that is null as null.
editAgentRequest(state, id, name, url, token, keep) ==
    LET c == FindById(state.agents, id)
    IN  IF c = 0 \/ name = Null \/ url = Null \/ token = Null
        THEN [sent |-> FALSE, body |-> EmptyBody]
        ELSE [sent |-> TRUE,
              body |-> AgentBody(name, url,
                                 IF Trim(token.s) # <<>> THEN Str(Trim(token.s))
                                 ELSE IF keep = Null THEN Null
                                 ELSE TokenOf(state.agents[c]))]

\* refresh(): the page fetches /api/state and keeps the listing
Refresh ==
    /\ req' = Request("GET /api/state", <<>>)
    /\ res' = getState(readStore(agents, hosts).agents, readStore(agents, hosts).hosts).res
    /\ lastState' = res'.listing
    /\ storeExists' = TRUE
    /\ UNCHANGED <<agents, hosts, inflight, storageVars, pending, normalizing, settled>>

\* A click on an agent's edit button, answered with these prompt answers: the PUT
\* is served, and after a 2xx answer the page refreshes; after any other answer
\* api() throws and the page only shows the message.
EditAgentClick(id, name, url, token, keep) ==
    LET e == editAgentRequest(lastState, id, name, url, token, keep)
        out == updateAgent(readStore(agents, hosts).agents,
                           readStore(agents, hosts).hosts, id, e.body)
    IN  /\ e.sent
        /\ storeExists' = TRUE
        /\ agents' = IF out.written THEN out.agents ELSE agents
        /\ hosts' = IF out.written THEN out.hosts ELSE hosts
        /\ IF out.res.status = 200
           THEN /\ req' = Request("GET /api/state", <<>>)
                /\ res' = getState(out.agents, out.hosts).res
                /\ lastState' = res'.listing
           ELSE /\ req' = Request("PUT /api/agents/:id", id)
                /\ res' = out.res
                /\ UNCHANGED lastState
        /\ UNCHANGED <<inflight, storageVars, pending, normalizing, settled>>

\* ---------------------------------------------------------------- requests in flight
\* A request is in flight from its arrival (express.json reads its body) until
\* its handler has answered; status 0 marks the ones not answered yet.  Any of
\* them may be the next whose handler runs, and the handler, having no await,
\* runs from readStore to its response before another handler starts.
InFlight(i) == pending[i].status = 0

\* the request is in flight together with another one for the same address
Races(i) ==
    \E j \in DOMAIN pending \ {i} :
        /\ InFlight(j)
        /\ normalizeMac(ToString(pending[j].body.mac)) =
              normalizeMac(ToString(pending[i].body.mac))

ReceiveCreateHost(body) ==
    /\ Len(pending) < MaxPending
    /\ pending' = Append(pending, [body |-> body, status |-> 0, raced |-> FALSE])
    /\ UNCHANGED <<storeExists, agents, hosts, req, res, inflight, storageVars, lastState,
                   normalizing, settled>>

ServeCreateHost(i) ==
    /\ InFlight(i)
    /\ \E r \in RandomBytes :
          LET out == createHost(readStore(agents, hosts).agents,
                                readStore(agents, hosts).hosts, pending[i].body, r)
          IN  /\ Len(out.hosts) <= MaxHosts
              /\ req' = Request("POST /api/hosts", <<>>)
              /\ res' = out.res
              /\ storeExists' = (storeExists \/ out.read)
              /\ agents' = IF out.written THEN out.agents ELSE agents
              /\ hosts' = IF out.written THEN out.hosts ELSE hosts
              /\ pending' = [pending EXCEPT ![i].status = out.res.status,
                                            ![i].raced = Races(i)]
    /\ UNCHANGED <<inflight, storageVars, lastState, normalizing, settled>>

\* ---------------------------------------------------------------- MAC calculation
\* normalizeMac applied to the string, and applied once more to its own result
NormalizeMac ==
    /\ normalizing.applied = 0
    /\ normalizing' = [normalizing EXCEPT !.once = normalizeMac(normalizing.raw),
                                          !.applied = 1]
    /\ UNCHANGED <<storeExists, agents, hosts, req, res, inflight, storageVars, pending,
                   lastState, settled>>

NormalizeMacAgain ==
    /\ normalizing.applied = 1
    /\ normalizing' = [normalizing EXCEPT !.twice = normalizeMac(normalizing.once),
                                          !.applied = 2]
    /\ UNCHANGED <<storeExists, agents, hosts, req, res, inflight, storageVars, pending,
                   lastState, settled>>

\* ---------------------------------------------------------------- specifications
NextMac == NormalizeMac \/ NormalizeMacAgain

NextStorage ==
    \/ \E w \in StorageRequests : StartHandler(w)
    \/ InitStoreWritten
    \/ ReadStoreAndDecide
    \/ TmpWritten
    \/ Renamed
    \/ Crash

\* the registry's writes step by step, with crashes
SpecStorage == Init /\ [][NextStorage]_vars

NextPage ==
    \/ \E body \in DispatchAgentCreateBodies : CreateAgent(body)
    \/ \E id \in AgentIds : DeleteAgent(id)
    \/ Refresh
    \/ \E id \in AgentIds, name \in PromptNames, url \in PromptUrls,
          token \in PromptTokens, keep \in PromptKeeps :
          EditAgentClick(id, name, url, token, keep)

\* the page's agent list and its edit button, over a registry other clients use
SpecPage == Init /\ [][NextPage]_vars

NextRace ==
    \/ \E body \in RaceHostCreateBodies : ReceiveCreateHost(body)
    \/ \E i \in DOMAIN pending : ServeCreateHost(i)
    \/ \E id \in HostIds : DeleteHost(id)

\* createHost requests in flight together, served in any order
SpecRace == Init /\ [][NextRace]_vars

\* normalizeMac and isMac over the MAC strings
SpecMac == InitMac /\ [][NextMac]_vars

NextRegistry ==
    \/ \E body \in AgentCreateBodies : CreateAgent(body)
    \/ \E id \in AgentIdParams, body \in AgentUpdateBodies : UpdateAgent(id, body)
    \/ \E id \in AgentIdParams : DeleteAgent(id)
    \/ \E body \in HostCreateBodies : CreateHost(body)
    \/ \E id \in HostIdParams, body \in HostUpdateBodies : UpdateHost(id, body)
    \/ \E id \in HostIdParams : DeleteHost(id)
    \/ GetState

NextDispatch ==
    \/ \E body \in DispatchAgentCreateBodies : CreateAgent(body)
    \/ \E id \in AgentIdParams : DeleteAgent(id)
    \/ \E body \in DispatchHostCreateBodies : CreateHost(body)
    \/ \E id \in HostIdParams, body \in DispatchHostUpdateBodies : UpdateHost(id, body)
    \/ \E id \in HostIdParams : DeleteHost(id)
    \/ \E hostId \in HostIdParams, body \in WakeBodies : WakeStart(hostId, body)
    \/ WakeRelayed
    \/ WakeLocal
    \/ \E id \in AgentIdParams : HealthStart(id)
    \/ HealthProbed
    \/ \E header \in HeaderInputs, body \in RelayBodies : AgentWake(header, body)

\* wake and health with the awaited call apart from the handler's resumption
NextAwait ==
    \/ \E body \in DispatchAgentCreateBodies : CreateAgent(body)
    \/ \E body \in DispatchHostCreateBodies : CreateHost(body)
    \/ \E id \in AgentIdParams : DeleteAgent(id)
    \/ \E id \in HostIdParams : DeleteHost(id)
    \/ \E hostId \in HostIdParams, body \in WakeBodies : WakeStart(hostId, body)
    \/ \E id \in AgentIdParams : HealthStart(id)
    \/ CallSettles
    \/ WakeResumes
    \/ HealthResumes
    \/ WakeLocal

Next == NextRegistry \/ NextDispatch

\* the registry under every request of the input sets
SpecRegistry == Init /\ [][NextRegistry]_vars

\* wake, health and the agent relay over the stores the set-up requests build
SpecDispatch == Init /\ [][NextDispatch]_vars

Spec == Init /\ [][Next]_vars

\* Node runs a continuation whose promise has settled, and the local UDP send
\* of wol() settles without any remote party: these steps are not postponed
\* forever.  When, and whether, an agent answers is not the controller's to say.
SpecAwait ==
    /\ Init /\ [][NextAwait]_vars
    /\ WF_vars(WakeResumes) /\ WF_vars(HealthResumes) /\ WF_vars(WakeLocal)

\* ================================================================ properties
RegistryWrites ==
    {"POST /api/agents", "PUT /api/agents/:id", "DELETE /api/agents/:id",
     "POST /api/hosts", "PUT /api/hosts/:id", "DELETE /api/hosts/:id"}

\* the value of a hexadecimal digit, whatever its case; 16 for any other character
HexValue(c) ==
    CASE c = "0" -> 0 [] c = "1" -> 1 [] c = "2" -> 2 [] c = "3" -> 3 [] c = "4" -> 4
      [] c = "5" -> 5 [] c = "6" -> 6 [] c = "7" -> 7 [] c = "8" -> 8 [] c = "9" -> 9
      [] c \in {"a", "A"} -> 10 [] c \in {"b", "B"} -> 11 [] c \in {"c", "C"} -> 12
      [] c \in {"d", "D"} -> 13 [] c \in {"e", "E"} -> 14 [] c \in {"f", "F"} -> 15
      [] OTHER -> 16

\* the six octets a MAC spelling denotes: its hex pairs, read without regard to
\* case, separator style or surrounding blanks; <<>> when it is no MAC spelling
Octets(raw) ==
    LET m == SelectSeq(raw, LAMBDA c : c # " ")
    IN  IF /\ Len(m) = 17
           /\ \A i \in {3, 6, 9, 12, 15} : m[i] \in {"-", ":"}
           /\ \A i \in 1..17 \ {3, 6, 9, 12, 15} : HexValue(m[i]) < 16
        THEN [o \in 1..6 |-> 16 * HexValue(m[3 * o - 2]) + HexValue(m[3 * o - 1])]
        ELSE <<>>

\* the request's mac names the address of a host already in the store
NamesStoredMac(hs, v) ==
    /\ v.t = "string"
    /\ Octets(v.s) # <<>>
    /\ \E k \in DOMAIN hs : Octets(hs[k].mac) = Octets(v.s)

\* C1: every persisted host's agentId is null or the id of a persisted agent.
C1_AgentIdRefersToAgent ==
    \A k \in DOMAIN hosts :
        \/ hosts[k].agentId = Null
        \/ \E i \in DOMAIN agents : hosts[k].agentId = Str(agents[i].id)

\* C1 witness: an agent that hosts referred to was deleted while another host
\* still refers to an agent that remains.
C1_Witness ==
    /\ req.op = "DELETE /api/agents/:id" /\ res.status = 200 /\ res.cleared >= 1
    /\ \E k \in DOMAIN hosts : hosts[k].agentId # Null
    /\ \E k \in DOMAIN hosts : hosts[k].agentId = Null

\* C2: no two distinct hosts of the persisted state have the same MAC.
C2_NoSharedMac ==
    \A k1, k2 \in DOMAIN hosts : k1 # k2 => hosts[k1].mac # hosts[k2].mac

\* C3: no two agents share an id and no two hosts share an id.
C3_UniqueIds ==
    /\ \A i1, i2 \in DOMAIN agents : i1 # i2 => agents[i1].id # agents[i2].id
    /\ \A k1, k2 \in DOMAIN hosts : k1 # k2 => hosts[k1].id # hosts[k2].id

\* C4: a successful deleteAgent(id) writes one state in which the agent is gone,
\* every other agent is kept as it was and in order, no host is removed, the
\* hosts that referred to id have agentId null and every other host is unchanged.
C4_DeleteAgentCascade ==
    [][(req'.op = "DELETE /api/agents/:id" /\ res'.status = 200) =>
          /\ \E i \in DOMAIN agents :
                /\ agents[i].id = req'.id
                /\ agents' = SubSeq(agents, 1, i - 1) \o
                                SubSeq(agents, i + 1, Len(agents))
          /\ Len(hosts') = Len(hosts)
          /\ \A k \in DOMAIN hosts :
                hosts'[k] = IF hosts[k].agentId = Str(req'.id)
                            THEN [id |-> hosts[k].id, name |-> hosts[k].name,
                                  mac |-> hosts[k].mac, agentId |-> Null]
                            ELSE hosts[k]]_vars

\* C5: a registry request answered 400, 404 or 409 leaves agents and hosts as they
\* were.
C5_FailureWritesNothing ==
    [][(req'.op \in RegistryWrites /\ res'.status \in {400, 404, 409}) =>
          agents' = agents /\ hosts' = hosts]_vars

\* C5 witness: a createHost naming an agent that does not exist was refused while
\* the store held hosts and agents.
C5_Witness ==
    /\ req.op = "POST /api/hosts" /\ res.status = 400 /\ res.error = "agentId not found"
    /\ hosts # <<>> /\ agents # <<>>

\* C6 as claimed: a createHost whose mac names a stored host's address is answered
\* 409 whatever its name and agentId.
C6_DuplicateMacAlways409 ==
    \A body \in HostCreateBodies, r \in RandomBytes :
        NamesStoredMac(hosts, body.mac) =>
            createHost(agents, hosts, body, r).res.status = 409

\* C6 amended: such a createHost always fails and writes nothing; it is answered
\* 409 when its name is not blank and its agentId is empty or names a stored agent,
\* and 400 otherwise.
C6_DuplicateMacRejected ==
    \A body \in HostCreateBodies, r \in RandomBytes :
        NamesStoredMac(hosts, body.mac) =>
            LET out == createHost(agents, hosts, body, r)
                named == body.name.t = "string" /\ \E i \in DOMAIN body.name.s :
                                                      body.name.s[i] # " "
                agentKnown ==
                    \/ body.agentId.t # "string"
                    \/ \A i \in DOMAIN body.agentId.s : body.agentId.s[i] = " "
                    \/ \E i \in DOMAIN agents :
                          agents[i].id = SelectSeq(body.agentId.s, LAMBDA c : c # " ")
            IN  /\ ~out.written
                /\ out.res.status = IF named /\ agentKnown THEN 409 ELSE 400

\* C6 witness: a createHost was answered 409 against a store holding a host.
C6_Witness ==
    /\ req.op = "POST /api/hosts" /\ res.status = 409 /\ res.error = "mac already exists"
    /\ hosts # <<>>

\* u is base without its trailing slashes, followed by /wake
StrippedPlusWake(u, base) ==
    \E n \in 0..Len(base) :
        /\ n = 0 \/ base[n] # "/"
        /\ \A i \in (n + 1)..Len(base) : base[i] = "/"
        /\ u = SubSeq(base, 1, n) \o <<"/", "w", "a", "k", "e">>

\* C7: a wake of an existing host with agentId null issues no relay call and hands
\* one packet with the host's mac to the local sender (a success says via local);
\* a wake of a host with an agentId issues exactly one relay call, to that agent's
\* url without trailing slashes plus /wake, with that agent's token as
\* X-Agent-Token and the host's stored mac as the body's mac, and sends no local
\* packet; whatever answer the call meets, no further call is issued.
C7_WakeRouting ==
    /\ \A hostId \in HostIdParams, body \in WakeBodies :
          \A k \in DOMAIN hosts :
              (hosts[k].id = hostId /\ \A j \in 1..(k - 1) : hosts[j].id # hostId) =>
                  LET w == wakeStart(agents, hosts, hostId, body)
                  IN  /\ ~w.done
                      /\ IF hosts[k].agentId = Null
                         THEN /\ w.inflight.calls = <<>>
                              /\ Len(w.inflight.packets) = 1
                              /\ w.inflight.packets[1].mac = hosts[k].mac
                         ELSE /\ Len(w.inflight.calls) = 1
                              /\ w.inflight.packets = <<>>
                              /\ w.inflight.calls[1].body.mac = Str(hosts[k].mac)
                              /\ \E i \in DOMAIN agents :
                                    /\ Str(agents[i].id) = hosts[k].agentId
                                    /\ w.inflight.calls[1].token = agents[i].token
                                    /\ StrippedPlusWake(w.inflight.calls[1].url,
                                                        agents[i].url)
    /\ inflight.kind = "relay" =>
          \A reply \in RelayReplies(inflight.calls[1]) :
              /\ wakeRelayed(inflight, reply).calls = inflight.calls
              /\ wakeRelayed(inflight, reply).packets = <<>>
    /\ inflight.kind = "local" =>
          \A wolOk \in BOOLEAN :
              /\ wakeLocal(inflight, wolOk).calls = <<>>
              /\ wakeLocal(inflight, wolOk).packets = inflight.packets
              /\ wolOk => wakeLocal(inflight, wolOk).via = "local"
    /\ req.op = "POST /api/wake/:hostId" =>
          /\ res.via = "local" => res.calls = <<>> /\ Len(res.packets) = 1
          /\ res.via = "agent" => Len(res.calls) = 1 /\ res.packets = <<>>
          /\ Len(res.calls) <= 1

\* C7 witness: a wake went through an agent with one relay call, carrying the
\* agent's token and a canonical mac, to the slash-free url.
C7_Witness ==
    /\ req.op = "POST /api/wake/:hostId" /\ res.status = 200 /\ res.via = "agent"
    /\ Len(res.calls) = 1
    /\ res.calls[1].token = AGENT_TOKEN
    /\ res.calls[1].body.mac = Str(Mac2)
    /\ res.calls[1].url = <<"h", "t", "t", "p", ":", "/", "/", "a", "/", "w", "a", "k", "e">>

\* C8: the agent's /wake hands a packet to the sender only when the presented
\* X-Agent-Token is the configured token; any other header, a missing or empty
\* one and a strict prefix included, is answered 401 and sends nothing.
C8_RelayRequiresExactToken ==
    req.op = "POST /wake" =>
        /\ res.packets # <<>> => req.header = Str(AGENT_TOKEN)
        /\ req.header # Str(AGENT_TOKEN) => res.status = 401 /\ res.packets = <<>>
        /\ req.header = Str(AGENT_TOKEN) => res.status # 401

\* C8 witness: a strict prefix of the configured token was presented and refused.
C8_Witness ==
    /\ req.op = "POST /wake" /\ req.header = Str(TokenS) /\ res.status = 401
    /\ Len(TokenS) < Len(AGENT_TOKEN) /\ SubSeq(AGENT_TOKEN, 1, Len(TokenS)) = TokenS

\* the tokens the stored agents could hold instead
OtherTokens == {AGENT_TOKEN, TokenS, <<"x", "y">>}

\* C9: the listing is the same whatever tokens the stored agents hold, and an
\* agent record of the listing has the fields id, name and url only.
C9_ListingHidesTokens ==
    req.op = "GET /api/state" =>
        /\ res.listing = getState(agents, hosts).res.listing
        /\ \A f \in [DOMAIN agents -> OtherTokens] :
              getState([i \in DOMAIN agents |-> [agents[i] EXCEPT !.token = f[i]]],
                       hosts).res.listing = res.listing
        /\ \A i \in DOMAIN res.listing.agents :
              DOMAIN res.listing.agents[i] = {"id", "name", "url"}
        /\ Len(res.listing.agents) = Len(agents)

\* C9 witness: a listing of two agents and a host was returned.
C9_Witness ==
    /\ req.op = "GET /api/state" /\ res.status = 200
    /\ Len(res.listing.agents) = 2 /\ Len(res.listing.hosts) >= 1

\* C10: the health check of a registered agent never answers at once with an
\* error; its answer is 200 { ok: true, reachable }, reachable being true exactly
\* when the probe met a 2xx answer (JSON or not) and false with an error message
\* otherwise; 404 is answered only for an id no stored agent has.
C10_HealthAlwaysStructured ==
    /\ \A id \in AgentIdParams :
          (\E i \in DOMAIN agents : agents[i].id = id) =>
              ~healthStart(agents, hosts, id).done
    /\ req.op = "GET /api/agents/:id/health" =>
          IF res.reply = "none"
          THEN /\ res.status = 404
               /\ \A i \in DOMAIN agents : agents[i].id # req.id
          ELSE /\ res.status = 200 /\ res.ok
               /\ res.reachable \in {"true", "false"}
               /\ res.reachable = "true" <=> res.reply \in {"2xx json", "2xx text"}
               /\ res.reachable = "false" => res.error # ""

\* C10 witness: a probe that met no answer was reported as unreachable, with 200.
C10_Witness ==
    /\ req.op = "GET /api/agents/:id/health" /\ res.status = 200 /\ res.ok
    /\ res.reachable = "false" /\ res.reply = "transport failure" /\ res.error # ""

\* the canonical form of a MAC: six lower-case hex pairs separated by colons
LowerHexChars ==
    {"0", "1", "2", "3", "4", "5", "6", "7", "8", "9", "a", "b", "c", "d", "e", "f"}

CanonicalMac(m) ==
    /\ Len(m) = 17
    /\ \A i \in 1..17 : IF i % 3 = 0 THEN m[i] = ":" ELSE m[i] \in LowerHexChars

HasHttpScheme(url) ==
    \/ Len(url) >= 7 /\ SubSeq(url, 1, 7) = <<"h", "t", "t", "p", ":", "/", "/">>
    \/ Len(url) >= 8 /\ SubSeq(url, 1, 8) = <<"h", "t", "t", "p", "s", ":", "/", "/">>

\* C11: every persisted agent has a non-empty name, a url starting with http://
\* or https:// and a non-empty token; every persisted host has a non-empty name
\* and a mac in canonical form.
C11_StoredRecordsValid ==
    /\ \A i \in DOMAIN agents :
          /\ agents[i].name # <<>>
          /\ HasHttpScheme(agents[i].url)
          /\ agents[i].token # <<>>
    /\ \A k \in DOMAIN hosts :
          /\ hosts[k].name # <<>>
          /\ CanonicalMac(hosts[k].mac)

\* C11 witness: an update went through on a store holding an agent and a host
\* whose mac was given in upper case with dashes.
C11_Witness ==
    /\ req.op = "PUT /api/hosts/:id" /\ res.status = 200
    /\ agents # <<>>
    /\ \E k \in DOMAIN hosts : hosts[k].mac = Mac1

\* the ids of a list of records, in order
IdsOf(recs) == [i \in DOMAIN recs |-> recs[i].id]

\* partial bodies of the two update routes, each leaving some fields out
AgentPartialBodies ==
    {AgentBody(n, u, t) :
        n \in {Undefined, Str(<<"m">>)},
        u \in {Undefined, Str(Padded(UrlB))},
        t \in {Undefined, Str(TokenS)}}
HostPartialBodies ==
    {HostBody(n, m, a) :
        n \in {Undefined, Str(<<"m">>)},
        m \in {Undefined, Str(Mac1UpperDash), Str(Mac2)},
        a \in {Undefined, Null} \cup {Str(id) : id \in AgentIds}}

\* C12: an update that is written keeps the id of the record it updates, keeps
\* every field the request leaves out, and keeps every other agent and host as
\* it is; and no request of any route changes the id of a record that stays.
C12_UpdatesKeepTheRest ==
    /\ [](/\ \A id \in AgentIdParams, body \in AgentPartialBodies :
                LET out == updateAgent(agents, hosts, id, body)
                IN  out.written =>
                        /\ out.hosts = hosts
                        /\ IdsOf(out.agents) = IdsOf(agents)
                        /\ \E i \in DOMAIN agents :
                              /\ agents[i].id = id
                              /\ \A j \in DOMAIN agents \ {i} : out.agents[j] = agents[j]
                              /\ body.name = Undefined => out.agents[i].name = agents[i].name
                              /\ body.url = Undefined => out.agents[i].url = agents[i].url
                              /\ body.token = Undefined =>
                                    out.agents[i].token = agents[i].token
          /\ \A id \in HostIdParams, body \in HostPartialBodies :
                LET out == updateHost(agents, hosts, id, body)
                IN  out.written =>
                        /\ out.agents = agents
                        /\ IdsOf(out.hosts) = IdsOf(hosts)
                        /\ \E k \in DOMAIN hosts :
                              /\ hosts[k].id = id
                              /\ \A j \in DOMAIN hosts \ {k} : out.hosts[j] = hosts[j]
                              /\ body.name = Undefined => out.hosts[k].name = hosts[k].name
                              /\ body.mac = Undefined => out.hosts[k].mac = hosts[k].mac
                              /\ body.agentId = Undefined =>
                                    out.hosts[k].agentId = hosts[k].agentId)
    /\ [][/\ req'.op \in {"PUT /api/agents/:id", "PUT /api/hosts/:id", "GET /api/state"} =>
                IdsOf(agents') = IdsOf(agents) /\ IdsOf(hosts') = IdsOf(hosts)
          /\ req'.op = "POST /api/agents" =>
                /\ IdsOf(hosts') = IdsOf(hosts)
                /\ SubSeq(IdsOf(agents'), 1, Len(agents)) = IdsOf(agents)
          /\ req'.op = "POST /api/hosts" =>
                /\ IdsOf(agents') = IdsOf(agents)
                /\ SubSeq(IdsOf(hosts'), 1, Len(hosts)) = IdsOf(hosts)
          /\ req'.op = "DELETE /api/agents/:id" =>
                /\ IdsOf(hosts') = IdsOf(hosts)
                /\ IdsOf(agents') \in {IdsOf(agents),
                                       SelectSeq(IdsOf(agents), LAMBDA x : x # req'.id)}
          /\ req'.op = "DELETE /api/hosts/:id" =>
                /\ IdsOf(agents') = IdsOf(agents)
                /\ IdsOf(hosts') \in {IdsOf(hosts),
                                      SelectSeq(IdsOf(hosts), LAMBDA x : x # req'.id)}]_vars

\* C12 witness: an update of one host of two went through, the two hosts being
\* assigned differently afterwards.
C12_Witness ==
    /\ req.op = "PUT /api/hosts/:id" /\ res.status = 200
    /\ Len(hosts) = 2 /\ hosts[1].id # hosts[2].id
    /\ hosts[1].agentId # hosts[2].agentId

\* a MAC in upper case with dashes
ToUpperChar(c) ==
    CASE c = "a" -> "A" [] c = "b" -> "B" [] c = "c" -> "C" [] c = "d" -> "D"
      [] c = "e" -> "E" [] c = "f" -> "F" [] c = ":" -> "-" [] OTHER -> c
UpperDash(m) == [i \in 1..Len(m) |-> ToUpperChar(m[i])]

\* C13: an updateHost that supplies only a mac succeeds when the mac is the
\* updated host's own, in either spelling, and is answered 409 and writes nothing
\* when it is the mac of a different host.
C13_UpdateHostExcludesItself ==
    \A k \in DOMAIN hosts :
        FindById(hosts, hosts[k].id) = k =>
            /\ \A m \in {hosts[k].mac, UpperDash(hosts[k].mac)} :
                  updateHost(agents, hosts, hosts[k].id,
                             HostBody(Undefined, Str(m), Undefined)).res.status = 200
            /\ \A j \in DOMAIN hosts \ {k} :
                  \A m \in {hosts[j].mac, UpperDash(hosts[j].mac)} :
                      LET out == updateHost(agents, hosts, hosts[k].id,
                                            HostBody(Undefined, Str(m), Undefined))
                      IN  out.res.status = 409 /\ ~out.written

\* C17: no wake, started on whatever store the registry requests served around
\* it have left, finds its host assigned to an agent the same store lacks.
C17_WakeNeverFindsAgentMissing ==
    /\ \A hostId \in HostIdParams, body \in WakeBodies :
          LET w == wakeStart(agents, hosts, hostId, body)
          IN  /\ w.done => w.res.status = 404
              /\ (~w.done /\ w.inflight.kind = "relay") =>
                    \E i \in DOMAIN agents : agents[i].id = w.inflight.agentId
    /\ res.error # "host.agentId is set but agent missing"
    /\ req.op = "POST /api/wake/:hostId" =>
          res.status \in {200, 404} \/ (res.status = 500 /\ res.reply # "none")

\* C17 witness: the agent of a relayed wake was deleted while the wake was
\* waiting for its relay call.
C17_Witness ==
    /\ inflight.kind = "relay"
    /\ \A i \in DOMAIN agents : agents[i].id # inflight.agentId
    /\ hosts # <<>> /\ \A k \in DOMAIN hosts : hosts[k].agentId = Null

\* the answers a relay call can fail with: no answer, an answer that is no
\* agent's, the agent's refusal of the token and the agent's failure to send
FailedRelayReplies(call) ==
    {reply \in RelayReplies(call) : reply.status < 200 \/ reply.status > 299}
        \cup {HttpReply(401, TRUE, agentWake(Str(TokenS), call.body, TRUE))}

\* the message of the error such an answer raises
UnderlyingMessage(reply) ==
    CASE reply.status = 0 -> "fetch failed"
      [] reply.status = 401 -> "unauthorized"
      [] reply.status = 404 -> "HTTP 404"
      [] reply.status = 500 -> "send failed"
      [] OTHER -> ""

\* C18: a wake whose relay call fails is answered with an error carrying the
\* failure's message; the call is not issued again and no packet is sent locally.
C18_RelayFailureSurfaces ==
    /\ inflight.kind = "relay" =>
          \A reply \in FailedRelayReplies(inflight.calls[1]) :
              LET r == wakeRelayed(inflight, reply)
              IN  /\ r.status = 500 /\ ~r.ok /\ r.via = ""
                  /\ r.error = UnderlyingMessage(reply) /\ r.error # ""
                  /\ r.calls = inflight.calls /\ Len(r.calls) = 1
                  /\ r.packets = <<>>
    /\ (/\ req.op = "POST /api/wake/:hostId"
        /\ res.reply \in {"transport failure", "non-2xx json", "non-2xx text"}
        /\ res.calls # <<>>) =>
          /\ res.status = 500 /\ res.error # ""
          /\ Len(res.calls) = 1 /\ res.packets = <<>>

\* C18 witness: a relayed wake ended in the agent's own failure message.
C18_Witness ==
    /\ req.op = "POST /api/wake/:hostId" /\ res.status = 500
    /\ res.reply = "non-2xx json" /\ res.error = "send failed"
    /\ Len(res.calls) = 1 /\ res.packets = <<>>

\* C19: a successful relay wake reports the mac, address and port the packet went
\* out with: those of the request, and 255.255.255.255 and 9 where it gives none.
C19_ResponseReportsWhatWasSent ==
    (req.op = "POST /wake" /\ res.status = 200) =>
        /\ Len(res.packets) = 1
        /\ res.mac = Str(res.packets[1].mac)
        /\ res.broadcast =
              IF res.packets[1].address = Undefined
              THEN Str(<<"2", "5", "5", ".", "2", "5", "5", ".", "2", "5", "5", ".",
                         "2", "5", "5">>)
              ELSE res.packets[1].address
        /\ res.port = IF res.packets[1].port = Undefined THEN Num(9)
                      ELSE res.packets[1].port

\* C14: valid MAC strings that name the same octets, whatever their separators
\* and letter case, get one and the same normalizeMac value; that value is
\* accepted by isMac; and normalizeMac of a normalizeMac value is that value.
C14_NormalizeMacCanonical ==
    /\ (normalizing.applied >= 1 /\ isMac(normalizing.raw)) =>
          /\ isMac(normalizing.once)
          /\ \A m \in MacInputs :
                (isMac(m) /\ Octets(m) = Octets(normalizing.raw)) =>
                    normalizeMac(m) = normalizing.once
    /\ normalizing.applied = 2 => normalizing.twice = normalizing.once

\* C14 witness: an upper-case MAC with mixed separators was normalized twice and
\* came out lower-case with colons both times.
C14_Witness ==
    /\ normalizing.applied = 2
    /\ normalizing.raw =
          <<"A", "A", "-", "B", "B", ":", "C", "C", "-", "D", "D", ":", "E", "E", "-",
            "0", "1">>
    /\ normalizing.once = Mac1 /\ normalizing.twice = Mac1

\* a request in flight whose address was persisted by one it was in flight with
RacedAndLost(i) ==
    /\ InFlight(i)
    /\ \E j \in DOMAIN pending \ {i} :
          /\ pending[j].status = 200 /\ pending[j].raced
          /\ Octets(pending[j].body.mac.s) = Octets(pending[i].body.mac.s)
    /\ NamesStoredMac(hosts, pending[i].body.mac)

\* C15 as claimed: a createHost in flight together with another for the same
\* address can still pass the uniqueness check and persist after the other has.
C15_RacingCreatesCanBothPersist ==
    \A i \in DOMAIN pending :
        RacedAndLost(i) =>
            \E r \in RandomBytes : createHost(agents, hosts, pending[i].body, r).written

\* C15 amended: createHost requests in flight together are served one handler
\* after the other; the one whose address is in the store by then is answered 409
\* and writes nothing, so no order of serving leaves two hosts with one mac.
C15_RacingCreatesAreSerialized ==
    /\ \A i \in DOMAIN pending :
          (InFlight(i) /\ NamesStoredMac(hosts, pending[i].body.mac)) =>
              \A r \in RandomBytes :
                  LET out == createHost(agents, hosts, pending[i].body, r)
                  IN  out.res.status = 409 /\ ~out.written
    /\ \A k1, k2 \in DOMAIN hosts :
          k1 # k2 => Octets(hosts[k1].mac) # Octets(hosts[k2].mac)

\* C15 witness: of two requests for one address in flight together, in two
\* spellings, one was persisted and the other was then answered 409.
C15_Witness ==
    /\ req.op = "POST /api/hosts" /\ res.status = 409
    /\ \E i, j \in DOMAIN pending :
          /\ pending[j].status = 200 /\ pending[j].raced
          /\ pending[i].status = 409
          /\ pending[i].body.mac # pending[j].body.mac
          /\ Octets(pending[i].body.mac.s) = Octets(pending[j].body.mac.s)
    /\ Len(hosts) = 1

\* C16: with the token prompt left blank, Cancel at the keep-token prompt aborts
\* the edit and leaves the stored agent as it is, and OK leaves the stored token
\* as it is.
C16_BlankTokenKeepsToken ==
    \A id \in AgentIds, name \in PromptNames \ {Null}, url \in PromptUrls \ {Null},
       token \in {Str(<<>>), Str(<<" ">>)} :
        \A i \in DOMAIN agents :
            (i = FindById(agents, id) /\ FindById(lastState.agents, id) # 0) =>
                LET cancel == editAgentRequest(lastState, id, name, url, token, Null)
                    ok == editAgentRequest(lastState, id, name, url, token, Str(<<>>))
                IN  /\ cancel.sent =>
                          ~updateAgent(agents, hosts, id, cancel.body).written
                    /\ ok.sent =>
                          LET out == updateAgent(agents, hosts, id, ok.body)
                          IN  out.agents[i].token = agents[i].token

\* C20: whenever no handler is in the middle of its file-system calls, a crash
\* having ended it or not, storage.json, once created, holds a whole document.
C20_StoreFileAlwaysWhole ==
    (writer.pc = "idle" /\ storeExists) => ~partial

\* C21: every wake or agent-health request that has been issued is eventually
\* answered to its caller, also when the contacted agent never answers.
C21_IssuedRequestCompletes ==
    (inflight.kind # "none") ~> (inflight.kind = "none")

====
